---- MODULE Spec2Model ----
(***************************************************************************)
(* Model of the repository-ingestion pipeline of Repo-Prompt-Generator:   *)
(* the Tauri command fetch_github_repo of src-tauri/src/lib.rs.           *)
(*                                                                         *)
(* Paths are TLA+ strings; the Rust string operations the command uses    *)
(* (starts_with, ends_with, contains, to_lowercase, split) are computed   *)
(* character by character.  Each await of the command is one action; the  *)
(* upstream's answer to the request is the action's input.                *)
(***************************************************************************)
EXTENDS Integers, Sequences, FiniteSets, TLC

(***************************************************************************)
(* Rust string operations                                                  *)
(***************************************************************************)
starts_with(s, p) ==
    /\ Len(p) <= Len(s)
    /\ SubSeq(s, 1, Len(p)) = p

ends_with(s, p) ==
    /\ Len(p) <= Len(s)
    /\ SubSeq(s, Len(s) - Len(p) + 1, Len(s)) = p

contains(s, p) ==
    \E i \in 0..(Len(s) - Len(p)) : SubSeq(s, i + 1, i + Len(p)) = p

lower_char(c) ==
    CASE c = "A" -> "a" [] c = "B" -> "b" [] c = "C" -> "c" [] c = "D" -> "d"
      [] c = "E" -> "e" [] c = "F" -> "f" [] c = "G" -> "g" [] c = "H" -> "h"
      [] c = "I" -> "i" [] c = "J" -> "j" [] c = "K" -> "k" [] c = "L" -> "l"
      [] c = "M" -> "m" [] c = "N" -> "n" [] c = "O" -> "o" [] c = "P" -> "p"
      [] c = "Q" -> "q" [] c = "R" -> "r" [] c = "S" -> "s" [] c = "T" -> "t"
      [] c = "U" -> "u" [] c = "V" -> "v" [] c = "W" -> "w" [] c = "X" -> "x"
      [] c = "Y" -> "y" [] c = "Z" -> "z" [] OTHER -> c

RECURSIVE to_lowercase(_)
to_lowercase(s) ==
    IF Len(s) = 0 THEN ""
    ELSE lower_char(SubSeq(s, 1, 1)) \o to_lowercase(SubSeq(s, 2, Len(s)))

\* s.split('/'): the segments between the slashes, empty ones included
RECURSIVE split_from(_, _, _)
split_from(s, start, i) ==
    IF i > Len(s) THEN <<SubSeq(s, start, Len(s))>>
    ELSE IF SubSeq(s, i, i) = "/"
         THEN <<SubSeq(s, start, i - 1)>> \o split_from(s, i + 1, i + 1)
         ELSE split_from(s, start, i + 1)

split(s) == split_from(s, 1, 1)

\* slice.contains(&x)
seq_contains(seq, x) == \E i \in 1..Len(seq) : seq[i] = x

(***************************************************************************)
(* Path classification: the retain filter of the tree                      *)
(***************************************************************************)
hard_ignore ==
    <<"venv", ".venv", "node_modules", ".git", "__pycache__", "dist", "build">>

secret_ignore ==
    <<".env", ".pem", ".key", ".cert", ".p12", "secrets.json",
      "credentials.json", "id_rsa">>

\* a plausible slip: a substring test in place of the segment test
is_hard_ignored_substring(path) ==
    \E k \in 1..Len(hard_ignore) : contains(path, hard_ignore[k])

is_hard_ignored(path) ==
    \E k \in 1..Len(hard_ignore) :
        \/ contains(path, "/" \o hard_ignore[k] \o "/")
        \/ starts_with(path, hard_ignore[k] \o "/")

is_secret(path) ==
    \E k \in 1..Len(secret_ignore) :
        \/ ends_with(path, secret_ignore[k])
        \/ contains(path, "/" \o secret_ignore[k] \o "/")

retain(paths) ==
    SelectSeq(paths, LAMBDA path : ~is_hard_ignored(path) /\ ~is_secret(path))

(***************************************************************************)
(* Candidate selection and scoring                                         *)
(***************************************************************************)
dep_files ==
    <<"package.json", "requirements.txt", "go.mod", "Cargo.toml", "pom.xml",
      "build.gradle">>

source_extensions ==
    <<".ts", ".tsx", ".js", ".jsx", ".py", ".go", ".rs", ".java", ".cpp",
      ".c", ".h", ".cs", ".md">>

\* a plausible slip: the root README is not excluded
is_candidate_with_readme(p) ==
    /\ \E k \in 1..Len(source_extensions) : ends_with(p, source_extensions[k])
    /\ ~seq_contains(dep_files, p)

is_candidate(p) ==
    /\ \E k \in 1..Len(source_extensions) : ends_with(p, source_extensions[k])
    /\ ~seq_contains(dep_files, p)
    /\ to_lowercase(p) # "readme.md"

files_to_fetch(paths) == SelectSeq(paths, is_candidate)

aux_keywords ==
    <<"build", "setup", "config", "webpack", "vite", "rollup", "gulpfile",
      "backup", "manage.py", "scripts/", "tools/", "docs/", "example", "demo",
      "migrations/">>

core_dirs == <<"src/", "lib/", "app/", "core/", "pkg/", "internal/">>

important_names ==
    <<"main", "index", "app", "server", "core", "manager", "parser", "api",
      "router", "handler", "controller", "service", "model", "database">>

get_file_score_per_keyword(path) ==
    LET lower_path == to_lowercase(path)
        parts      == split(lower_path)
        file_name  == parts[Len(parts)]
        hits       ==
            Cardinality({k \in 1..Len(aux_keywords) :
                            contains(lower_path, aux_keywords[k])})
        core       ==
            \E k \in 1..Len(core_dirs) :
                \/ starts_with(lower_path, core_dirs[k])
                \/ contains(lower_path, "/" \o core_dirs[k])
        important  ==
            \E k \in 1..Len(important_names) :
                contains(file_name, important_names[k])
    IN  (IF \/ contains(lower_path, "/test/")
            \/ contains(lower_path, "/tests/")
            \/ contains(lower_path, "__tests__")
            \/ contains(file_name, ".test.")
            \/ contains(file_name, ".spec.")
            \/ starts_with(file_name, "test_")
            \/ ends_with(file_name, "_test.go")
         THEN -50 ELSE 0)
      - 30 * hits
      + (IF core THEN 20 ELSE 0)
      + (IF important THEN 10 ELSE 0)
      - Len(parts)

get_file_score(path) ==
    LET lower_path == to_lowercase(path)
        parts      == split(lower_path)
        file_name  == parts[Len(parts)]
        depth      == Len(parts)
        test_like  ==
            \/ contains(lower_path, "/test/")
            \/ contains(lower_path, "/tests/")
            \/ contains(lower_path, "__tests__")
            \/ contains(file_name, ".test.")
            \/ contains(file_name, ".spec.")
            \/ starts_with(file_name, "test_")
            \/ ends_with(file_name, "_test.go")
        aux        ==
            \E k \in 1..Len(aux_keywords) : contains(lower_path, aux_keywords[k])
        core       ==
            \E k \in 1..Len(core_dirs) :
                \/ starts_with(lower_path, core_dirs[k])
                \/ contains(lower_path, "/" \o core_dirs[k])
        important  ==
            \E k \in 1..Len(important_names) :
                contains(file_name, important_names[k])
    IN  (IF test_like THEN -50 ELSE 0)
      + (IF aux THEN -30 ELSE 0)
      + (IF core THEN 20 ELSE 0)
      + (IF important THEN 10 ELSE 0)
      - depth

\* files_to_fetch.sort_by(|a, b| get_file_score(b).cmp(&get_file_score(a))):
\* slice::sort_by is a stable sort.  Its result, highest score first: the
\* entries of the highest score in the order they came in, then the others
\* sorted the same way.
scored(files) ==
    [i \in 1..Len(files) |-> [path |-> files[i], score |-> get_file_score(files[i])]]

RECURSIVE stable_sort(_)
stable_sort(s) ==
    IF Len(s) <= 1 THEN s
    ELSE LET scores == {s[i].score : i \in 1..Len(s)}
             top    == CHOOSE x \in scores : \A y \in scores : x >= y
         IN  SelectSeq(s, LAMBDA e : e.score = top)
                 \o stable_sort(SelectSeq(s, LAMBDA e : e.score # top))

\* a plausible slip: the comparator's operands the other way round,
\* get_file_score(a).cmp(&get_file_score(b))
sort_by_ascending(files) ==
    LET keyed  == [i \in 1..Len(files) |->
                      [path |-> files[i], score |-> 0 - get_file_score(files[i])]]
        sorted == stable_sort(keyed)
    IN  [i \in 1..Len(sorted) |-> sorted[i].path]

sort_by(files) ==
    LET sorted == stable_sort(scored(files))
    IN  [i \in 1..Len(sorted) |-> sorted[i].path]

\* Option<u32>: None is << >>, Some(n) is <<n>>
None == << >>
Some(n) == <<n>>

DEFAULT_MAX_FILES == 5
MIN_LIMIT == 1
MAX_LIMIT == 200
TREE_LIMIT == 1000

clamp(n, lo, hi) == IF n < lo THEN lo ELSE IF n > hi THEN hi ELSE n

\* a plausible slip: the upper clamp forgotten
limit_unclamped(mf) ==
    LET n == IF mf = None THEN DEFAULT_MAX_FILES ELSE mf[1]
    IN  IF n < MIN_LIMIT THEN MIN_LIMIT ELSE n

\* max_files.unwrap_or(5).clamp(1, 200)
limit(mf) ==
    clamp(IF mf = None THEN DEFAULT_MAX_FILES ELSE mf[1], MIN_LIMIT, MAX_LIMIT)

top_n(files, lim) ==
    IF Len(files) > lim THEN SubSeq(files, 1, lim) ELSE files

\* the blob entries of tree_json["tree"] whose path is a string
blob_paths(entries) ==
    LET blobs == SelectSeq(entries,
                     LAMBDA e : e.type = "blob" /\ "path" \in DOMAIN e)
    IN  [i \in 1..Len(blobs) |-> blobs[i].path]

\* a plausible slip: the comparison off by one
needs_truncation_off_by_one(paths) == Len(paths) > TREE_LIMIT + 1

needs_truncation(paths) == Len(paths) > TREE_LIMIT

truncated(paths) ==
    IF needs_truncation(paths) THEN SubSeq(paths, 1, TREE_LIMIT) ELSE paths

(***************************************************************************)
(* The upstream: what the repository host answers                          *)
(***************************************************************************)
\* A response: sent is FALSE when send_async returned Err (no response at
\* all); success is status().is_success(); body says what the body holds.
NoResp == [sent |-> FALSE, success |-> FALSE, body |-> "none"]

Responses(bodies) ==
    {[sent |-> FALSE, success |-> FALSE, body |-> "no_response"]}
        \cup [sent : {TRUE}, success : BOOLEAN, body : bodies]

InfoResponses == Responses({"unreadable", "not_json", "json"})

\* a tree listing comes with a success status only; an error status carries
\* an error object (JSON without "tree") or a body that is no JSON
TreeResponses ==
    {r \in Responses({"unreadable", "not_json", "json_no_tree", "json_tree"}) :
        r.body = "json_tree" => r.success}

ContentResponses ==
    Responses({"unreadable", "not_json", "no_content", "bad_base64", "content"})

README_TEXT == "# readme"

file_body(path) == "<" \o path \o ">"

blob(p) == [path |-> p, type |-> "blob"]
dir(p) == [path |-> p, type |-> "tree"]

digit(d) == SubSeq("0123456789", d + 1, d + 1)

RECURSIVE digits(_)
digits(n) == IF n < 10 THEN digit(n) ELSE digits(n \div 10) \o digit(n % 10)

\* n blobs prefix1.ext .. prefixn.ext
pad(prefix, ext, n) == [i \in 1..n |-> blob(prefix \o digits(i) \o ext)]

(***************************************************************************)
(* Bounds of the inputs                                                    *)
(***************************************************************************)
\* longest generated small tree
MaxCore == 3
\* largest small max_files
MaxSmallFiles == 2
\* how far the padded trees go beyond TREE_LIMIT, resp. MAX_LIMIT
MaxOver == 1
\* the generated files gen/f1.rs .. gen/f<MaxFlakyPad>.rs may fail to download;
\* the other generated files are always served
MaxFlakyPad == 1

RankPool == {"a.rs", "b.rs", "src/main.go", "docs/README.md", "package.json"}

ClassPool ==
    {"builder/x.rs", "rebuild/x.rs", "build/x.rs", "a/build/x.rs",
     "dist/app.js", "venv/lib/site.py", "myvenv/site.py", ".venv/bin/a.py",
     "node_modules/a/index.js", "x/node_modules", ".git/config",
     ".github/ci.md", ".gitignore", "__pycache__/m.py", "src/__pycache__/m.py",
     ".env", "conf/.env", "prod.env", "a/.pem/b.rs", ".pem/b.rs", "key.pem",
     "a/.key/x.c", "id_rsa", "id_rsa.pub", "secrets.json", "my_secrets.json",
     "docs/README.md", "pkg/Readme.md", "README.md", "readme.md",
     "Cargo.toml", "go.mod"}

ScenarioTree ==
    <<dir("src"), blob("src/main.go"), blob("src/main_test.go"),
      blob("README.md"), dir("docs"), blob("docs/setup.md"),
      blob("package.json")>>

MixedTree ==
    <<blob("Cargo.toml"), blob("node_modules/a/index.js"), blob("builder/x.rs"),
      [type |-> "blob"], blob("build/x.rs"), blob("pkg/Readme.md"),
      blob("key.pem"), blob("go.mod"), blob("README.md"), blob("src/lib.rs"),
      blob("tests/test_lib.py")>>

Perms(S, n) ==
    {s \in [1..n -> S] : \A i, j \in 1..n : i # j => s[i] # s[j]}

blobs(paths) == [i \in 1..Len(paths) |-> blob(paths[i])]

SmallTrees ==
    {ScenarioTree, MixedTree}
        \cup {<<blob(p)>> : p \in ClassPool}
        \cup UNION {{blobs(s) : s \in Perms(RankPool, n)} : n \in 0..MaxCore}

SmallMaxFiles == {None} \cup {Some(n) : n \in 0..MaxSmallFiles}

PadCores ==
    {<<blob("src/main.go")>>, <<blob("node_modules/a/index.js")>>,
     <<blob("package.json"), blob("src/main.go")>>}

padded(padding, core, pad_first) ==
    IF pad_first THEN padding \o core ELSE core \o padding

\* trees around TREE_LIMIT entries: assets that are no candidates
LongTrees ==
    {padded(pad("assets/img", ".png", n), core, pad_first) :
        n \in (TREE_LIMIT - 1)..(TREE_LIMIT + MaxOver),
        core \in PadCores, pad_first \in BOOLEAN}

\* trees with around MAX_LIMIT candidates
WideTrees ==
    {padded(pad("gen/f", ".rs", n), <<blob("src/main.go")>>, pad_first) :
        n \in (MAX_LIMIT - 1)..(MAX_LIMIT + MaxOver), pad_first \in BOOLEAN}

WideMaxFiles ==
    {Some(MAX_LIMIT - 1), Some(MAX_LIMIT), Some(MAX_LIMIT + 1 + MaxOver)}

Inputs ==
    (SmallTrees \X SmallMaxFiles)
        \cup (LongTrees \X {None, Some(1)})
        \cup (WideTrees \X WideMaxFiles)

flaky(file) ==
    \/ ~starts_with(file, "gen/f")
    \/ \E i \in 1..MaxFlakyPad : file = "gen/f" \o digits(i) \o ".rs"

(***************************************************************************)
(* State of one fetch_github_repo call                                     *)
(***************************************************************************)
VARIABLES
    pc,                   \* where the call stands
    max_files,            \* argument: Option<u32>
    tree_json,            \* upstream: the entries of the recursive tree listing
    info_resp,            \* the response to the metadata request
    tree_resp,            \* the response to the tree request
    retained,             \* tree_paths as the retain filter left it
    tree_paths,
    readme,
    readme_ok,            \* the README response decoded
    dependencies,
    dep_idx,              \* position in dep_files
    dep_ok,               \* manifests requested -> response decoded
    files_to_fetch_names,
    next_file,            \* position in files_to_fetch_names
    file_ok,              \* per fetched file: response decoded
    source_files,
    is_truncated,
    requests,             \* requests issued so far
    ret                   \* "pending", "Ok" or "Err"

fetch_vars ==
    <<pc, max_files, tree_json, info_resp, tree_resp, retained, tree_paths,
      readme, readme_ok, dependencies, dep_idx, dep_ok, files_to_fetch_names,
      next_file, file_ok, source_files, is_truncated, requests, ret>>

(***************************************************************************)
(* State of one get_file_score evaluation                                  *)
(***************************************************************************)
VARIABLES
    score_path,           \* argument: the path
    score                 \* None until evaluated, then Some(result)

score_vars == <<score_path, score>>

ScoreIdle ==
    /\ score_path = ""
    /\ score = None

(***************************************************************************)
(* call_gemini_secure: the process environment and the invocations         *)
(***************************************************************************)
VARIABLES
    env,                  \* std::env: variable name -> None or Some(setting)
    gemini                \* per invocation: arguments, position, result

proxy_vars == <<env, gemini>>

\* concurrent invocations of the command
MaxCalls == 2

Calls == 1..MaxCalls

ProxyEnvNames == {"HTTPS_PROXY", "HTTP_PROXY"}

\* str::trim, for the blank the inputs use
trim(s) ==
    LET keep == {i \in 1..Len(s) : SubSeq(s, i, i) # " "}
    IN  IF keep = {} THEN ""
        ELSE SubSeq(s, CHOOSE i \in keep : \A j \in keep : i <= j,
                       CHOOSE i \in keep : \A j \in keep : i >= j)

\* api_key.map(trim).filter(non-empty).unwrap_or_else(state.gemini_api_key)
resolve_key(api_key, state_key) ==
    IF api_key # None /\ trim(api_key[1]) # "" THEN trim(api_key[1])
    ELSE state_key

\* proxy.as_deref().map(|s| s.trim()).filter(|s| !s.is_empty())
proxy_addr(proxy) ==
    IF proxy # None /\ trim(proxy[1]) # "" THEN Some(trim(proxy[1])) ELSE None

\* the URI written to the environment
proxy_uri(proxy_url) ==
    IF ~starts_with(proxy_url, "http") THEN "http://" \o proxy_url
    ELSE proxy_url

\* arguments of an invocation: api_key with the state's key, and proxy
GeminiKeys == {<<None, "">>, <<Some(" k1 "), "">>}

GeminiProxies == {None, Some("  "), Some(" proxy:8080"), Some("http://corp:3128")}

GeminiStarts ==
    {[pc |-> "start", api_key |-> k[1], state_key |-> k[2], proxy |-> p,
      result |-> "none", ret |-> "pending"] :
        k \in GeminiKeys, p \in GeminiProxies}

ProxyIdle ==
    /\ env = [n \in ProxyEnvNames |-> None]
    /\ gemini = [i \in Calls |->
                    [pc |-> "returned", api_key |-> None, state_key |-> "",
                     proxy |-> None, result |-> "none", ret |-> "none"]]

(***************************************************************************)
(* start_ollama, stop_ollama and the Exit handler: the flag, the Ollama    *)
(* processes of the machine, the commands in flight                        *)
(***************************************************************************)
VARIABLES
    we_started_ollama,    \* AppState.we_started_ollama
    processes,            \* running processes named ollama / ollama.exe
    spawned,              \* number of such processes started so far
    killed,               \* processes killed by stop_ollama or the Exit handler
    start_pc,             \* start_ollama: "idle" or "spawn" (after the check)
    stop_pc,              \* stop_ollama: "idle" or "kill" (after the swap)
    app                   \* "running", "exiting" (Exit, after the swap), "exited"

ollama_vars ==
    <<we_started_ollama, processes, spawned, killed, start_pc, stop_pc, app>>

\* Ollama processes started in a run, by anyone
MaxProcesses == 3

OllamaIdle ==
    /\ we_started_ollama = FALSE
    /\ processes = {}
    /\ spawned = 0
    /\ killed = {}
    /\ start_pc = "idle"
    /\ stop_pc = "idle"
    /\ app = "running"

\* the state outside the fetch_github_repo call
other_vars == <<score_vars, proxy_vars, ollama_vars>>

OthersIdle == ScoreIdle /\ ProxyIdle /\ OllamaIdle

vars == <<fetch_vars, other_vars>>

\* a call with one of the given inputs, before its first request
FetchStart(inputs) ==
    /\ \E input \in inputs :
        /\ tree_json = input[1]
        /\ max_files = input[2]
    /\ pc = "info"
    /\ info_resp = NoResp
    /\ tree_resp = NoResp
    /\ retained = << >>
    /\ tree_paths = << >>
    /\ readme = ""
    /\ readme_ok = FALSE
    /\ dependencies = ""
    /\ dep_idx = 1
    /\ dep_ok = << >>
    /\ files_to_fetch_names = << >>
    /\ next_file = 1
    /\ file_ok = << >>
    /\ source_files = << >>
    /\ is_truncated = FALSE
    /\ requests = << >>
    /\ ret = "pending"

Init ==
    /\ FetchStart(Inputs)
    /\ OthersIdle

(***************************************************************************)
(* What the command makes of a response                                    *)
(***************************************************************************)
\* metadata: send error, non-success status, unreadable body, invalid JSON
info_failed(resp) ==
    \/ ~resp.sent
    \/ ~resp.success
    \/ resp.body = "unreadable"
    \/ resp.body = "not_json"

\* tree: send error, unreadable body, invalid JSON; the status is not read
tree_failed(resp) ==
    \/ ~resp.sent
    \/ resp.body = "unreadable"
    \/ resp.body = "not_json"

\* tree_json["tree"].as_array() ... unwrap_or_default()
listed_paths(resp, entries) ==
    IF resp.body = "json_tree" THEN blob_paths(entries) ELSE << >>

\* the chain of if-lets: sent, success status, readable, JSON, content is a
\* string, base64 decodes
content_ok(resp) ==
    /\ resp.sent
    /\ resp.success
    /\ resp.body = "content"

\* a plausible slip: a failed download leaves an empty entry
push_file_placeholder(files, file, resp) ==
    IF content_ok(resp)
    THEN Append(files, [path |-> file, content |-> file_body(file)])
    ELSE Append(files, [path |-> file, content |-> ""])

push_file(files, file, resp) ==
    IF content_ok(resp)
    THEN Append(files, [path |-> file, content |-> file_body(file)])
    ELSE files

push_dependency(deps, file, resp) ==
    IF content_ok(resp)
    THEN deps \o "\n--- " \o file \o " ---\n" \o file_body(file) \o "\n"
    ELSE deps

(***************************************************************************)
(* fetch_github_repo, one action per await                                 *)
(***************************************************************************)
FetchInfo ==
    /\ pc = "info"
    /\ \E resp \in InfoResponses :
        /\ info_resp' = resp
        /\ IF info_failed(resp)
           THEN pc' = "done" /\ ret' = "Err"
           ELSE pc' = "tree" /\ ret' = ret
    /\ requests' = Append(requests, "repos")
    /\ UNCHANGED <<max_files, tree_json, tree_resp, retained, tree_paths,
                   readme, readme_ok, dependencies, dep_idx, dep_ok,
                   files_to_fetch_names, next_file, file_ok, source_files,
                   is_truncated>>
    /\ UNCHANGED other_vars

FetchTree ==
    /\ pc = "tree"
    /\ \E resp \in TreeResponses :
        /\ tree_resp' = resp
        /\ IF tree_failed(resp)
           THEN /\ pc' = "done"
                /\ ret' = "Err"
                /\ UNCHANGED <<tree_paths, retained>>
           ELSE /\ pc' = "readme"
                /\ ret' = ret
                /\ tree_paths' = retain(listed_paths(resp, tree_json))
                /\ retained' = tree_paths'
    /\ requests' = Append(requests, "git/trees")
    /\ UNCHANGED <<max_files, tree_json, info_resp, readme, readme_ok,
                   dependencies, dep_idx, dep_ok, files_to_fetch_names,
                   next_file, file_ok, source_files, is_truncated>>
    /\ UNCHANGED other_vars

FetchReadme ==
    /\ pc = "readme"
    /\ \E resp \in ContentResponses :
        /\ readme_ok' = content_ok(resp)
        /\ readme' = IF content_ok(resp) THEN README_TEXT ELSE ""
    /\ pc' = "deps"
    /\ requests' = Append(requests, "readme")
    /\ UNCHANGED <<max_files, tree_json, info_resp, tree_resp, retained,
                   tree_paths, dependencies, dep_idx, dep_ok,
                   files_to_fetch_names, next_file, file_ok, source_files,
                   is_truncated, ret>>
    /\ UNCHANGED other_vars

\* a manifest that is not in the tree is passed over without a request
SkipDep ==
    /\ pc = "deps"
    /\ dep_idx <= Len(dep_files)
    /\ ~seq_contains(tree_paths, dep_files[dep_idx])
    /\ dep_idx' = dep_idx + 1
    /\ UNCHANGED <<pc, max_files, tree_json, info_resp, tree_resp, retained,
                   tree_paths, readme, readme_ok, dependencies, dep_ok,
                   files_to_fetch_names, next_file, file_ok, source_files,
                   is_truncated, requests, ret>>
    /\ UNCHANGED other_vars

FetchDep ==
    /\ pc = "deps"
    /\ dep_idx <= Len(dep_files)
    /\ seq_contains(tree_paths, dep_files[dep_idx])
    /\ \E resp \in ContentResponses :
        /\ dependencies' = push_dependency(dependencies, dep_files[dep_idx], resp)
        /\ dep_ok' = (dep_files[dep_idx] :> content_ok(resp)) @@ dep_ok
    /\ dep_idx' = dep_idx + 1
    /\ requests' = Append(requests, "contents/" \o dep_files[dep_idx])
    /\ UNCHANGED <<pc, max_files, tree_json, info_resp, tree_resp, retained,
                   tree_paths, readme, readme_ok, files_to_fetch_names,
                   next_file, file_ok, source_files, is_truncated, ret>>
    /\ UNCHANGED other_vars

\* candidate filter, sort by score, top limit
Select ==
    /\ pc = "deps"
    /\ dep_idx > Len(dep_files)
    /\ files_to_fetch_names' =
           top_n(sort_by(files_to_fetch(tree_paths)), limit(max_files))
    /\ pc' = "contents"
    /\ UNCHANGED <<max_files, tree_json, info_resp, tree_resp, retained,
                   tree_paths, readme, readme_ok, dependencies, dep_idx,
                   dep_ok, next_file, file_ok, source_files, is_truncated,
                   requests, ret>>
    /\ UNCHANGED other_vars

FetchContent ==
    /\ pc = "contents"
    /\ next_file <= Len(files_to_fetch_names)
    /\ LET file == files_to_fetch_names[next_file]
       IN  /\ \E resp \in ContentResponses :
                /\ content_ok(resp) \/ flaky(file)
                /\ source_files' = push_file(source_files, file, resp)
                /\ file_ok' = Append(file_ok, content_ok(resp))
           /\ requests' = Append(requests, "contents/" \o file)
    /\ next_file' = next_file + 1
    /\ UNCHANGED <<pc, max_files, tree_json, info_resp, tree_resp, retained,
                   tree_paths, readme, readme_ok, dependencies, dep_idx,
                   dep_ok, files_to_fetch_names, is_truncated, ret>>
    /\ UNCHANGED other_vars

\* truncate the tree and return Ok(GithubRepoData)
Finish ==
    /\ pc = "contents"
    /\ next_file > Len(files_to_fetch_names)
    /\ is_truncated' = needs_truncation(tree_paths)
    /\ tree_paths' = truncated(tree_paths)
    /\ ret' = "Ok"
    /\ pc' = "done"
    /\ UNCHANGED <<max_files, tree_json, info_resp, tree_resp, retained,
                   readme, readme_ok, dependencies, dep_idx, dep_ok,
                   files_to_fetch_names, next_file, file_ok, source_files,
                   requests>>
    /\ UNCHANGED other_vars

Next ==
    \/ FetchInfo
    \/ FetchTree
    \/ FetchReadme
    \/ SkipDep
    \/ FetchDep
    \/ Select
    \/ FetchContent
    \/ Finish

Spec == Init /\ [][Next]_vars

(***************************************************************************)
(* Properties                                                              *)
(***************************************************************************)
Returned == pc = "done" /\ ret = "Ok"

\* the blob paths the upstream listed, before the retain filter
RawTree == listed_paths(tree_resp, tree_json)

source_paths == [i \in 1..Len(source_files) |-> source_files[i].path]

Elements(seq) == {seq[i] : i \in 1..Len(seq)}

\* a request of stage 1 failed: no response, a non-success status or a body
\* that cannot be read or parsed
Stage1Failure(resp) ==
    /\ resp # NoResp
    /\ \/ ~resp.sent
       \/ ~resp.success
       \/ resp.body \in {"unreadable", "not_json"}

\* C1: whenever the metadata request or the tree request fails (transport
\* failure, non-success status, unparseable body), the call returns Err and
\* no bundle.
C1_Stage1FailureReturnsErr ==
    (pc = "done" /\ (Stage1Failure(info_resp) \/ Stage1Failure(tree_resp)))
        => ret = "Err"

\* C2: every path of the returned source_files is an element of the returned
\* tree.
C2_SourceFilesInReturnedTree ==
    Returned => \A i \in 1..Len(source_files) :
                    source_files[i].path \in Elements(tree_paths)

\* C3: the returned tree has at most 1000 entries, is the first 1000 retained
\* paths in upstream order when more than 1000 were retained (and all of them
\* otherwise), and is_truncated is true exactly when that truncation occurred.
C3_TreeCappedAndFlagged ==
    Returned =>
        /\ Len(tree_paths) <= 1000
        /\ IF Len(retained) > 1000
           THEN tree_paths = SubSeq(retained, 1, 1000)
           ELSE tree_paths = retained
        /\ is_truncated <=> (Len(tree_paths) < Len(retained))

C3_Witness ==
    /\ Returned
    /\ is_truncated
    /\ Len(retained) = 1001
    /\ Len(tree_paths) = 1000
    /\ retained[1001] = "src/main.go"

\* C4 as stated: a raw tree (before the filter) of more than 1000 blob entries
\* makes a successful ingest return is_truncated = true.
C4_RawOverLimitIsTruncated ==
    (Returned /\ Len(RawTree) > 1000) => is_truncated

\* C4 as amended: a retained tree (the raw tree after the hard-ignore/secret
\* filter) of more than 1000 entries makes a successful ingest return
\* is_truncated = true.
C4_RetainedOverLimitIsTruncated ==
    (Returned /\ Len(retained) > 1000) => is_truncated

C4_Witness ==
    /\ Returned
    /\ Len(RawTree) > Len(retained)
    /\ Len(retained) > 1000
    /\ is_truncated

\* C5: the number of returned source_files is at most clamp(max_files, 1, 200),
\* an absent max_files counting as 5.
C5_SourceFilesWithinLimit ==
    LET asked == IF max_files = None THEN 5 ELSE max_files[1]
        bound == IF asked < 1 THEN 1 ELSE IF asked > 200 THEN 200 ELSE asked
    IN  Len(source_files) <= bound

C5_Witness ==
    /\ Returned
    /\ max_files # None
    /\ max_files[1] > 200
    /\ Len(files_to_fetch(retained)) > 200
    /\ Len(source_files) = 200

\* the claim's rules, read off the path's '/'-separated segments: a
\* hard-ignore name is a segment that a '/' follows; a secret is a suffix of
\* the path or a segment between two '/'
HardNames ==
    {"venv", ".venv", "node_modules", ".git", "__pycache__", "dist", "build"}

SecretNames ==
    {".env", ".pem", ".key", ".cert", ".p12", "secrets.json",
     "credentials.json", "id_rsa"}

SegmentHardIgnored(path) ==
    LET segs == split(path)
    IN  \E i \in 1..(Len(segs) - 1) : segs[i] \in HardNames

SegmentSecret(path) ==
    LET segs == split(path)
    IN  \/ \E s \in SecretNames :
            /\ Len(path) >= Len(s)
            /\ \A k \in 1..Len(s) :
                   SubSeq(path, Len(path) - Len(s) + k, Len(path) - Len(s) + k)
                       = SubSeq(s, k, k)
        \/ \E i \in 2..(Len(segs) - 1) : segs[i] \in SecretNames

Kept(path) == ~SegmentHardIgnored(path) /\ ~SegmentSecret(path)

\* C6: a blob path is retained iff it is neither hard-ignored nor secret, so
\* the retained tree is the listing without exactly those paths, no returned
\* tree path matches either rule, and builder/x.rs and rebuild/x.rs (partial
\* matches of "build") are retained.
C6_RetainedIffNotIgnored ==
    /\ pc = "readme" =>
        /\ retained = SelectSeq(RawTree, Kept)
        /\ \A p \in {"builder/x.rs", "rebuild/x.rs"} :
               p \in Elements(RawTree) => p \in Elements(retained)
    /\ Returned => \A i \in 1..Len(tree_paths) : Kept(tree_paths[i])

C6_Witness ==
    /\ Returned
    /\ "builder/x.rs" \in Elements(tree_paths)
    /\ "build/x.rs" \in Elements(RawTree) \ Elements(tree_paths)
    /\ "key.pem" \in Elements(RawTree) \ Elements(tree_paths)

ScenarioPaths ==
    <<"src/main.go", "src/main_test.go", "README.md", "docs/setup.md",
      "package.json">>

AllFilesFetched ==
    /\ Returned
    /\ \A i \in 1..Len(file_ok) : file_ok[i]

\* C7 as stated: with the retained tree of the scenario, max_files = 2 and
\* every content fetch succeeding, source_files is src/main.go followed by
\* docs/setup.md.
C7_ScenarioPicksDocsSetup ==
    (AllFilesFetched /\ retained = ScenarioPaths /\ max_files = Some(2))
        => source_paths = <<"src/main.go", "docs/setup.md">>

\* C7 as amended: in that scenario source_files is src/main.go followed by
\* src/main_test.go (score -22, above docs/setup.md at -32); README.md and
\* package.json are excluded.
C7_ScenarioPicksMainTest ==
    (AllFilesFetched /\ retained = ScenarioPaths /\ max_files = Some(2))
        => source_paths = <<"src/main.go", "src/main_test.go">>

C7_Witness ==
    /\ AllFilesFetched
    /\ retained = ScenarioPaths
    /\ max_files = Some(2)
    /\ Len(source_files) = 2

\* C8: no path whose lowercased last segment is readme.md appears in
\* source_files, at any directory depth.
C8_NoReadmeAtAnyDepth ==
    \A i \in 1..Len(source_files) :
        LET segs == split(to_lowercase(source_files[i].path))
        IN  segs[Len(segs)] # "readme.md"

\* the first k selected paths whose content fetch succeeded, in ranked order
FetchedOf(k) ==
    LET fetched == SelectSeq([i \in 1..k |-> i], LAMBDA i : file_ok[i])
    IN  [j \in 1..Len(fetched) |-> files_to_fetch_names[fetched[j]]]

\* C9: the paths selected for content fetch are the first
\* N = min(number of candidates, clamp(max_files, 1, 200)) candidates in the
\* order "score descending, equal scores by position in the tree", and
\* source_files lists the successfully fetched ones in that order.
C9_TopNOfStableRanking ==
    /\ (pc = "contents" /\ next_file = 1) =>
        LET cands == files_to_fetch(retained)
            names == files_to_fetch_names
            score_of == [i \in 1..Len(cands) |-> get_file_score(cands[i])]
            asked == IF max_files = None THEN 5 ELSE max_files[1]
            bound == IF asked < 1 THEN 1 ELSE IF asked > 200 THEN 200 ELSE asked
            N     == IF Len(cands) < bound THEN Len(cands) ELSE bound
            pos   == [k \in 1..Len(names) |->
                        CHOOSE i \in 0..Len(cands) :
                            \/ i > 0 /\ cands[i] = names[k]
                            \/ i = 0 /\ names[k] \notin Elements(cands)]
            before(i, j) ==
                \/ score_of[i] > score_of[j]
                \/ score_of[i] = score_of[j] /\ i < j
        IN  /\ Len(names) = N
            /\ \A k \in 1..Len(names) : pos[k] > 0
            /\ \A k \in 1..(Len(names) - 1) : before(pos[k], pos[k + 1])
            /\ \A i \in 1..Len(cands) :
                   (\A k \in 1..Len(names) : pos[k] # i)
                       => (Len(names) > 0 /\ before(pos[Len(names)], i))
    /\ Returned =>
        /\ Len(file_ok) = Len(files_to_fetch_names)
        /\ source_paths = FetchedOf(Len(file_ok))

C9_Witness ==
    /\ Returned
    /\ retained = <<"b.rs", "src/main.go", "a.rs">>
    /\ max_files = Some(2)
    /\ source_paths = <<"src/main.go", "b.rs">>

\* the manifest sections, in dep_files order, of the manifests whose fetch
\* succeeded
RECURSIVE SectionsFrom(_)
SectionsFrom(i) ==
    IF i > Len(dep_files) THEN ""
    ELSE (IF dep_files[i] \in DOMAIN dep_ok /\ dep_ok[dep_files[i]]
          THEN "\n--- " \o dep_files[i] \o " ---\n" \o file_body(dep_files[i])
                   \o "\n"
          ELSE "")
         \o SectionsFrom(i + 1)

\* both requests of stage 1 were answered with a success status and a body
\* that parses
Stage1Succeeded ==
    /\ info_resp # NoResp /\ ~Stage1Failure(info_resp)
    /\ tree_resp # NoResp /\ ~Stage1Failure(tree_resp)

\* C10: once the metadata and the tree have been resolved the call goes on to
\* return Ok whatever README, manifest and content fetches fail: it is never
\* stuck and never returns Err; a failed README leaves readme empty, a failed
\* manifest adds no section to dependencies, a failed file is left out of
\* source_files, and each fetch contributes what its own response decides.
C10_BestEffortAfterStage1 ==
    Stage1Succeeded =>
        /\ pc \in {"readme", "deps", "contents", "done"}
        /\ pc = "done" => ret = "Ok"
        /\ pc # "done" => ret = "pending"
        /\ pc = "readme" => ENABLED FetchReadme
        /\ pc = "deps" =>
               (ENABLED (SkipDep \/ FetchDep) \/ dep_idx = Len(dep_files) + 1)
        /\ pc = "contents" => ENABLED (FetchContent \/ Finish)
        /\ pc # "readme" => readme = (IF readme_ok THEN README_TEXT ELSE "")
        /\ \A i \in 1..Len(source_files) :
               source_files[i].content = file_body(source_files[i].path)
        /\ Len(source_files) = Cardinality({k \in 1..Len(file_ok) : file_ok[k]})
        /\ pc = "done" =>
            /\ dependencies = SectionsFrom(1)
            /\ DOMAIN dep_ok =
                   {f \in Elements(dep_files) : f \in Elements(retained)}
            /\ Len(file_ok) = Len(files_to_fetch_names)
            /\ source_paths = FetchedOf(Len(file_ok))

C10_Witness ==
    /\ Stage1Succeeded
    /\ Returned
    /\ ~readme_ok
    /\ readme = ""
    /\ \E f \in DOMAIN dep_ok : ~dep_ok[f]
    /\ \E f \in DOMAIN dep_ok : dep_ok[f]
    /\ \E k \in 1..Len(file_ok) : ~file_ok[k]
    /\ Len(source_files) > 0


\* the requests after stage 1, by position in the log: README, manifests and
\* per-file contents
LaterRequests ==
    {i \in 1..Len(requests) : requests[i] \notin {"repos", "git/trees"}}

ManifestRequestNames ==
    {"contents/" \o n : n \in {"package.json", "requirements.txt", "go.mod",
                               "Cargo.toml", "pom.xml", "build.gradle"}}

\* the per-file content requests, by position in the log
FileRequests ==
    {i \in LaterRequests :
        requests[i] # "readme" /\ requests[i] \notin ManifestRequestNames}

\* a later request comes after both stage-1 responses and the filtering
C12_AfterStage1 ==
    \A i \in LaterRequests :
        /\ \E j, k \in 1..(i - 1) :
               requests[j] = "repos" /\ requests[k] = "git/trees"
        /\ info_resp.sent /\ tree_resp.sent
        /\ retained = retain(RawTree)

\* no later request once stage 1 has failed
C12_NoneAfterFailure ==
    (Stage1Failure(info_resp) \/ Stage1Failure(tree_resp))
        => LaterRequests = {}

\* at most clamp(max_files, 1, 200) per-file requests, each for a selected
\* path, none twice, and every selected path requested by the end
C12_OnePerSelectedPath ==
    LET asked == IF max_files = None THEN 5 ELSE max_files[1]
        bound == IF asked < 1 THEN 1 ELSE IF asked > 200 THEN 200 ELSE asked
        selected == {"contents/" \o f : f \in Elements(files_to_fetch_names)}
    IN  /\ Cardinality(FileRequests) <= bound
        /\ \A i \in FileRequests : requests[i] \in selected
        /\ \A i, j \in FileRequests : requests[i] = requests[j] => i = j
        /\ Returned => selected = {requests[i] : i \in FileRequests}

\* C12: no README, manifest or per-file content request is issued before the
\* metadata response and the tree response have been received and the tree
\* filtered; if stage 1 fails no such request is ever issued; and there are
\* at most clamp(max_files, 1, 200) per-file content requests, one per
\* selected path, none repeated.
C12_RequestsOnlyAfterStage1 ==
    /\ C12_AfterStage1
    /\ C12_NoneAfterFailure
    /\ C12_OnePerSelectedPath


(***************************************************************************)
(* get_file_score on its own: one evaluation on a path of a bounded pool   *)
(***************************************************************************)
ScoreDirs ==
    {"", "src/", "scripts/", "a/", "a/test/", "lib/core/", "Docs/",
     "x/tests/", "pkg/__tests__/", "tools/build/", "my_src/", "internal/app/"}

ScoreFiles ==
    {"server.go", "foo_test.go", "foo.go", "Main.rs", "test_util.py",
     "x.spec.ts", "Index.test.JS", "webpack.config.js", "notes.md",
     "demo_api.rs"}

\* the argument of get_file_score: a path of the (filtered) tree
ScoreInputs ==
    {d \o f : d \in ScoreDirs, f \in ScoreFiles}
        \cup {"src/tests/test_build_main.py", "docs/example/setup/config.md"}

InitScore ==
    /\ FetchStart({<<<< >>, None>>})
    /\ score_path \in ScoreInputs
    /\ score = None
    /\ ProxyIdle
    /\ OllamaIdle

\* let s = get_file_score(path)
EvalScore ==
    /\ score = None
    /\ score' = Some(get_file_score(score_path))
    /\ UNCHANGED <<fetch_vars, score_path, proxy_vars, ollama_vars>>

NextScore == EvalScore

SpecScore == InitScore /\ [][NextScore]_vars

\* The rules as the specification words them, on the lowercased path.
SpecTestLike(p) ==
    LET segs == split(p)
        name == segs[Len(segs)]
    IN  \/ \E m \in {"/test/", "/tests/", "__tests__"} : contains(p, m)
        \/ \E m \in {".test.", ".spec."} : contains(name, m)
        \/ starts_with(name, "test_")
        \/ ends_with(name, "_test.go")

SpecAuxiliary(p) ==
    \E k \in {"build", "setup", "config", "webpack", "vite", "rollup",
              "gulpfile", "backup", "manage.py", "scripts/", "tools/",
              "docs/", "example", "demo", "migrations/"} : contains(p, k)

SpecCoreDir(p) ==
    \E d \in {"src/", "lib/", "app/", "core/", "pkg/", "internal/"} :
        starts_with(p, d) \/ contains(p, "/" \o d)

SpecImportant(p) ==
    LET segs == split(p)
    IN  \E n \in {"main", "index", "app", "server", "core", "manager",
                  "parser", "api", "router", "handler", "controller",
                  "service", "model", "database"} :
            contains(segs[Len(segs)], n)

\* the segments are one more than the '/' characters
SpecSegments(p) ==
    1 + Cardinality({i \in 1..Len(p) : SubSeq(p, i, i) = "/"})

Contribution(applies, amount) == IF applies THEN amount ELSE 0

SpecScoreOf(path) ==
    LET p == to_lowercase(path)
    IN  Contribution(SpecTestLike(p), -50)
      + Contribution(SpecAuxiliary(p), -30)
      + Contribution(SpecCoreDir(p), 20)
      + Contribution(SpecImportant(p), 10)
      - SpecSegments(p)

\* C11: the score of a path is the sum of the five independently applied
\* rules on the lowercased path (-50 test-like, -30 auxiliary keyword, +20
\* core directory, +10 important file name, minus the number of segments),
\* each rule counted at most once; and score("src/server.go") is above
\* score("scripts/server.go"), score("a/test/foo_test.go") is at most
\* score("a/foo.go") - 50.
C11_ScoreIsSumOfRules ==
    score # None =>
        /\ score[1] = SpecScoreOf(score_path)
        /\ score_path = "src/server.go" =>
               score[1] > get_file_score("scripts/server.go")
        /\ score_path = "a/test/foo_test.go" =>
               score[1] <= get_file_score("a/foo.go") - 50

\* a path on which every rule applies, the test and auxiliary rules each by
\* more than one of their patterns, has been scored
C11_Witness ==
    /\ score_path = "src/tests/test_build_main.py"
    /\ score = Some(-50 - 30 + 20 + 10 - 3)


(***************************************************************************)
(* call_gemini_secure invocations running beside a fetch_github_repo call. *)
(* The commands are async and run on the runtime's worker threads, so the  *)
(* statements of different invocations interleave.                         *)
(***************************************************************************)
ProxyFetchInputs == {<<<<blob("package.json"), blob("src/main.go")>>, None>>}

InitProxy ==
    /\ FetchStart(ProxyFetchInputs)
    /\ ScoreIdle
    /\ env = [n \in ProxyEnvNames |-> None]
    /\ gemini \in [Calls -> GeminiStarts]
    /\ OllamaIdle

\* the setting invocation i writes; "by" records the writer
own_setting(i) ==
    Some([uri |-> proxy_uri(proxy_addr(gemini[i].proxy)[1]), by |-> i])

\* key check, request construction and the choice of the client
Begin(i) ==
    /\ gemini[i].pc = "start"
    /\ \E request_ok \in BOOLEAN :
        IF resolve_key(gemini[i].api_key, gemini[i].state_key) = "" \/ ~request_ok
        THEN gemini' = [gemini EXCEPT ![i].pc = "returned", ![i].ret = "Err"]
        ELSE IF proxy_addr(gemini[i].proxy) # None
        THEN gemini' = [gemini EXCEPT ![i].pc = "set_https"]
        ELSE gemini' = [gemini EXCEPT ![i].pc = "send"]
    /\ UNCHANGED <<fetch_vars, score_vars, ollama_vars, env>>

\* std::env::set_var("HTTPS_PROXY", &proxy_uri)
SetHttps(i) ==
    /\ gemini[i].pc = "set_https"
    /\ env' = [env EXCEPT !["HTTPS_PROXY"] = own_setting(i)]
    /\ gemini' = [gemini EXCEPT ![i].pc = "set_http"]
    /\ UNCHANGED <<fetch_vars, score_vars, ollama_vars>>

\* std::env::set_var("HTTP_PROXY", &proxy_uri)
SetHttp(i) ==
    /\ gemini[i].pc = "set_http"
    /\ env' = [env EXCEPT !["HTTP_PROXY"] = own_setting(i)]
    /\ gemini' = [gemini EXCEPT ![i].pc = "build"]
    /\ UNCHANGED <<fetch_vars, score_vars, ollama_vars>>

\* HttpClient::builder().timeout(..).build().map_err(..)?
BuildClient(i) ==
    /\ gemini[i].pc = "build"
    /\ \E built \in BOOLEAN :
        IF built
        THEN gemini' = [gemini EXCEPT ![i].pc = "send_proxy"]
        ELSE gemini' = [gemini EXCEPT ![i].pc = "returned", ![i].ret = "Err"]
    /\ UNCHANGED <<fetch_vars, score_vars, ollama_vars, env>>

\* proxy_client.send_async(request): the request goes out
SendViaProxy(i) ==
    /\ gemini[i].pc = "send_proxy"
    /\ gemini' = [gemini EXCEPT ![i].pc = "await_proxy"]
    /\ UNCHANGED <<fetch_vars, score_vars, ollama_vars, env>>

\* .await.map_err(..): let result
ReceiveViaProxy(i) ==
    /\ gemini[i].pc = "await_proxy"
    /\ \E r \in {"conn_error", "success", "error_status"} :
        gemini' = [gemini EXCEPT ![i].pc = "remove_https", ![i].result = r]
    /\ UNCHANGED <<fetch_vars, score_vars, ollama_vars, env>>

\* std::env::remove_var("HTTPS_PROXY")
RemoveHttps(i) ==
    /\ gemini[i].pc = "remove_https"
    /\ env' = [env EXCEPT !["HTTPS_PROXY"] = None]
    /\ gemini' = [gemini EXCEPT ![i].pc = "remove_http"]
    /\ UNCHANGED <<fetch_vars, score_vars, ollama_vars>>

\* std::env::remove_var("HTTP_PROXY"); result?
RemoveHttp(i) ==
    /\ gemini[i].pc = "remove_http"
    /\ env' = [env EXCEPT !["HTTP_PROXY"] = None]
    /\ IF gemini[i].result = "conn_error"
       THEN gemini' = [gemini EXCEPT ![i].pc = "returned", ![i].ret = "Err"]
       ELSE gemini' = [gemini EXCEPT ![i].pc = "status"]
    /\ UNCHANGED <<fetch_vars, score_vars, ollama_vars>>

\* state.http_client.send_async(request): the request goes out
SendShared(i) ==
    /\ gemini[i].pc = "send"
    /\ gemini' = [gemini EXCEPT ![i].pc = "await"]
    /\ UNCHANGED <<fetch_vars, score_vars, ollama_vars, env>>

\* .await.map_err(..)?
ReceiveShared(i) ==
    /\ gemini[i].pc = "await"
    /\ \E r \in {"conn_error", "success", "error_status"} :
        IF r = "conn_error"
        THEN gemini' = [gemini EXCEPT ![i].pc = "returned", ![i].result = r,
                                      ![i].ret = "Err"]
        ELSE gemini' = [gemini EXCEPT ![i].pc = "status", ![i].result = r]
    /\ UNCHANGED <<fetch_vars, score_vars, ollama_vars, env>>

\* response.status(), response.text().await, the status test
ReadStatus(i) ==
    /\ gemini[i].pc = "status"
    /\ gemini' = [gemini EXCEPT
                    ![i].pc = "returned",
                    ![i].ret = IF gemini[i].result = "success" THEN "Ok" ELSE "Err"]
    /\ UNCHANGED <<fetch_vars, score_vars, ollama_vars, env>>

call_gemini_secure(i) ==
    \/ Begin(i)
    \/ SetHttps(i)
    \/ SetHttp(i)
    \/ BuildClient(i)
    \/ SendViaProxy(i)
    \/ ReceiveViaProxy(i)
    \/ RemoveHttps(i)
    \/ RemoveHttp(i)
    \/ SendShared(i)
    \/ ReceiveShared(i)
    \/ ReadStatus(i)

NextProxy ==
    \/ \E i \in Calls : call_gemini_secure(i)
    \/ Next

SpecProxy == InitProxy /\ [][NextProxy]_vars


\* a proxy variable holds a setting written by an invocation other than i
\* (0 stands for fetch_github_repo, which writes none)
SetByAnother(i) ==
    \E n \in ProxyEnvNames : env[n] # None /\ env[n][1].by # i

\* both proxy variables hold the URI invocation i was given
HoldOwnUri(i) ==
    \A n \in ProxyEnvNames :
        /\ env[n] # None
        /\ env[n][1].uri = proxy_uri(proxy_addr(gemini[i].proxy)[1])

\* a step in which fetch_github_repo sends a request
FetchSends == requests' # requests

\* a step in which a no-proxy invocation sends through the shared client
SharedSends(i) == gemini[i].pc = "send" /\ gemini'[i].pc = "await"

\* a step in which an invocation given a proxy sends through its own client
ProxySends(i) == gemini[i].pc = "send_proxy" /\ gemini'[i].pc = "await_proxy"

C13_DirectRequestsSeeNoProxy ==
    [][/\ FetchSends => ~SetByAnother(0)
       /\ \A i \in Calls : SharedSends(i) => ~SetByAnother(i)]_vars

C13_ProxyRequestsSeeOwnUri ==
    [][\A i \in Calls : ProxySends(i) => HoldOwnUri(i)]_vars

\* C13: under any interleaving, a request sent by a no-proxy
\* call_gemini_secure invocation or by fetch_github_repo is never sent while
\* HTTPS_PROXY / HTTP_PROXY are set by another call_gemini_secure invocation,
\* and an invocation given a proxy sends its request while both variables
\* still hold its own proxy URI.
C13_ProxyEnvIsolated ==
    [][/\ FetchSends => ~SetByAnother(0)
       /\ \A i \in Calls :
            /\ SharedSends(i) => ~SetByAnother(i)
            /\ ProxySends(i) => HoldOwnUri(i)]_vars

\* invocation i has returned
GeminiReturned(i) == gemini[i].pc = "returned"

\* C14: the proxy variables an invocation with a non-empty proxy sets are
\* removed again on every return path (client construction failure,
\* connection error, non-success status): once the call has returned, no
\* variable holds a setting it wrote.
C14_ProxyEnvRemovedOnReturn ==
    \A i \in Calls :
        GeminiReturned(i) =>
            \A n \in ProxyEnvNames : env[n] = None \/ env[n][1].by # i

\* the same for the return paths after the request was sent
C14_RemovedAfterSend ==
    \A i \in Calls :
        (GeminiReturned(i) /\ gemini[i].result # "none") =>
            \A n \in ProxyEnvNames : env[n] = None \/ env[n][1].by # i


(***************************************************************************)
(* The Ollama lifecycle: the application's commands and Exit handler, and  *)
(* Ollama processes that other programs or the user start and end.         *)
(***************************************************************************)
process(n, by) == [pid |-> n, origin |-> by]

\* at launch the flag is false; an Ollama of the user may be running already
InitOllama ==
    /\ FetchStart(ProxyFetchInputs)
    /\ ScoreIdle
    /\ ProxyIdle
    /\ we_started_ollama = FALSE
    /\ \E already \in BOOLEAN :
        /\ processes = IF already THEN {process(1, "external")} ELSE {}
        /\ spawned = IF already THEN 1 ELSE 0
    /\ killed = {}
    /\ start_pc = "idle"
    /\ stop_pc = "idle"
    /\ app = "running"

\* s.processes().values().any(|p| p.name() == name_win || p.name() == name_unix)
is_ollama_running == processes # {}

\* start_ollama up to the check: returns when an Ollama is running
StartCheck ==
    /\ app = "running"
    /\ start_pc = "idle"
    /\ start_pc' = IF is_ollama_running THEN "idle" ELSE "spawn"
    /\ UNCHANGED <<we_started_ollama, processes, spawned, killed, stop_pc, app>>
    /\ UNCHANGED <<fetch_vars, score_vars, proxy_vars>>

\* Command::new("ollama").arg("serve").spawn() and the match on its result
StartSpawn ==
    /\ app # "exited"
    /\ start_pc = "spawn"
    /\ \E child_ok \in BOOLEAN :
        IF child_ok /\ spawned < MaxProcesses
        THEN /\ processes' = processes \cup {process(spawned + 1, "app")}
             /\ spawned' = spawned + 1
             /\ we_started_ollama' = TRUE
        ELSE UNCHANGED <<processes, spawned, we_started_ollama>>
    /\ start_pc' = "idle"
    /\ UNCHANGED <<killed, stop_pc, app>>
    /\ UNCHANGED <<fetch_vars, score_vars, proxy_vars>>

\* the kill loops over processes_by_exact_name: every process of the name
\* running at the refresh is sent kill(); kill() may fail
kill_by_name(handler) ==
    \E done \in SUBSET processes :
        /\ processes' = processes \ done
        /\ killed' = killed \cup
               {[pid |-> p.pid, origin |-> p.origin, by |-> handler] : p \in done}

\* stop_ollama: let we_started_it = state.we_started_ollama.swap(false)
StopSwap ==
    /\ app = "running"
    /\ stop_pc = "idle"
    /\ we_started_ollama' = FALSE
    /\ stop_pc' = IF we_started_ollama THEN "kill" ELSE "idle"
    /\ UNCHANGED <<processes, spawned, killed, start_pc, app>>
    /\ UNCHANGED <<fetch_vars, score_vars, proxy_vars>>

\* stop_ollama: if we_started_it { refresh; kill every ollama.exe / ollama }
StopKill ==
    /\ app # "exited"
    /\ stop_pc = "kill"
    /\ kill_by_name("stop_ollama")
    /\ stop_pc' = "idle"
    /\ UNCHANGED <<we_started_ollama, spawned, start_pc, app>>
    /\ UNCHANGED <<fetch_vars, score_vars, proxy_vars>>

\* RunEvent::Exit: let we_started_it = ...swap(false)
ExitSwap ==
    /\ app = "running"
    /\ we_started_ollama' = FALSE
    /\ app' = IF we_started_ollama THEN "exiting" ELSE "exited"
    /\ UNCHANGED <<processes, spawned, killed, start_pc, stop_pc>>
    /\ UNCHANGED <<fetch_vars, score_vars, proxy_vars>>

\* RunEvent::Exit: if we_started_it { refresh; kill every ollama.exe / ollama }
ExitKill ==
    /\ app = "exiting"
    /\ kill_by_name("Exit")
    /\ app' = "exited"
    /\ UNCHANGED <<we_started_ollama, spawned, start_pc, stop_pc>>
    /\ UNCHANGED <<fetch_vars, score_vars, proxy_vars>>

\* somebody else starts an Ollama (the user's service, a shell, another tool)
ExternalStart ==
    /\ spawned < MaxProcesses
    /\ processes' = processes \cup {process(spawned + 1, "external")}
    /\ spawned' = spawned + 1
    /\ UNCHANGED <<we_started_ollama, killed, start_pc, stop_pc, app>>
    /\ UNCHANGED <<fetch_vars, score_vars, proxy_vars>>

\* an Ollama process ends on its own or is ended by somebody else
ProcessExit ==
    /\ \E p \in processes : processes' = processes \ {p}
    /\ UNCHANGED <<we_started_ollama, spawned, killed, start_pc, stop_pc, app>>
    /\ UNCHANGED <<fetch_vars, score_vars, proxy_vars>>

NextOllama ==
    \/ StartCheck
    \/ StartSpawn
    \/ StopSwap
    \/ StopKill
    \/ ExitSwap
    \/ ExitKill
    \/ ExternalStart
    \/ ProcessExit

SpecOllama == InitOllama /\ [][NextOllama]_vars

\* a step of a handler that read we_started_ollama as true
KillStepAfterTrueFlag ==
    \/ stop_pc = "kill" /\ stop_pc' = "idle"
    \/ app = "exiting" /\ app' = "exited"

\* the handlers terminate nothing when they found the flag false
C15_NothingKilledWhenFlagFalse ==
    [][(killed' # killed) => KillStepAfterTrueFlag]_vars

\* no process started by somebody else is ever terminated by the handlers
C15_NoExternalKilled ==
    \A k \in killed : k.origin = "app"

\* C15: after any sequence or interleaving of start_ollama, stop_ollama,
\* application Exit and external Ollama processes starting or exiting,
\* stop_ollama and the Exit handler never terminate an Ollama process that
\* this application's start_ollama did not spawn, and they terminate nothing
\* when we_started_ollama is false.
C15_OnlyOwnOllamaKilled ==
    [][(killed' # killed) =>
          /\ KillStepAfterTrueFlag
          /\ \A k \in killed' \ killed : k.origin = "app"]_vars

====
